---- MODULE Spec2Model ----
(***************************************************************************)
(* fetch-gql: the GraphQLResponse result container (ok / err and their     *)
(* combinators) and the query resolution pipeline of src/src/index.ts.     *)
(***************************************************************************)
EXTENDS Integers, Sequences, FiniteSets, TLC

(***************************************************************************)
(* Bounds                                                                  *)
(***************************************************************************)
\* longest error array carried by a response body, a hook result or a
\* mapping function result
MaxErrs == 2
\* number of combinator calls the caller applies to one container
MaxOps == 2

(***************************************************************************)
(* JavaScript values.  A value is a record [tag, v]; v holds the name of   *)
(* an object or the element names of an array.  An absent JSON field and   *)
(* a function returning nothing are both `undefined`.                      *)
(***************************************************************************)
Undef == [tag |-> "undefined", v |-> <<>>]
Null == [tag |-> "null", v |-> <<>>]
Zero == [tag |-> "zero", v |-> <<>>]
Obj(n) == [tag |-> "object", v |-> <<n>>]
Arr(s) == [tag |-> "array", v |-> s]

\* JavaScript truthiness: undefined, null and 0 are falsy, every object and
\* every array (the empty one too) is truthy
Truthy(x) == x.tag \in {"object", "array"}
IsArray(x) == x.tag = "array"
\* the name under which a non-array value appears as an array element
Elem(x) == IF x.tag = "object" THEN x.v[1] ELSE x.tag

ErrNames == {"e1", "e2"}
DataNames == {"d1", "d2"}
SeqsUpTo(S, n) == UNION {[1..k -> S] : k \in 0..n}
ErrSeqs == SeqsUpTo(ErrNames, MaxErrs)
Falsy == {Undef, Null, Zero}
\* values of the body's `data` field
DataValues == Falsy \cup {Obj(d) : d \in DataNames}
\* values of the body's `errors` field, and of what a hook or a mapping
\* function returns: nothing, a single error, or an array of errors
ErrorValues == Falsy \cup {Obj(e) : e \in ErrNames} \cup {Arr(s) : s \in ErrSeqs}

(***************************************************************************)
(* Result container                                                        *)
(***************************************************************************)
\* variant: an ok container that raises both flags
okBothFlags(data) ==
  [variant |-> "ok", isOk |-> TRUE, isErr |-> TRUE, data |-> data,
   errors |-> <<>>]

\* A container is the object literal one of the two factories returns: `variant`
\* says which factory's closures it carries, `data` / `errors` what they closed
\* over.
ok(data) ==
  [variant |-> "ok", isOk |-> TRUE, isErr |-> FALSE, data |-> data,
   errors |-> <<>>]

\* variant: only arrays are kept, a single error is lost
errArraysOnly(error) ==
  [variant |-> "err", isOk |-> FALSE, isErr |-> TRUE, data |-> Undef,
   errors |-> IF IsArray(error) THEN error.v ELSE <<>>]

\* variant: the argument is wrapped in an array without looking at it
errWrapsAlways(error) ==
  [variant |-> "err", isOk |-> FALSE, isErr |-> TRUE, data |-> Undef,
   errors |-> <<Elem(error)>>]

\* variant: an array of errors is kept in reverse order
errReverses(error) ==
  [variant |-> "err", isOk |-> FALSE, isErr |-> TRUE, data |-> Undef,
   errors |-> IF IsArray(error)
                THEN [i \in 1..Len(error.v) |-> error.v[Len(error.v) + 1 - i]]
                ELSE <<Elem(error)>>]

err(error) ==
  LET errors == IF IsArray(error) THEN error.v ELSE <<Elem(error)>>
  IN  [variant |-> "err", isOk |-> FALSE, isErr |-> TRUE, data |-> Undef,
       errors |-> errors]

\* the value handed to a callback that receives the error array
ErrorsOf(box) == Arr(box.errors)

NoBox == [variant |-> "none", isOk |-> FALSE, isErr |-> FALSE, data |-> Undef,
          errors |-> <<>>]

(***************************************************************************)
(* HTTP exchange                                                           *)
(***************************************************************************)
StatusLines == {<<200, "OK">>, <<500, "InternalError">>}
NotJson == [json |-> FALSE, data |-> Undef, errors |-> Undef]
Bodies == {NotJson} \cup
          {[json |-> TRUE, data |-> d, errors |-> e] :
              d \in DataValues, e \in ErrorValues}
Responses == {[status |-> sl[1], statusText |-> sl[2], body |-> b] :
                 sl \in StatusLines, b \in Bodies}
NoResponse == [status |-> 0, statusText |-> "", body |-> NotJson]

NoJson == [present |-> FALSE, data |-> Undef, errors |-> Undef]

\* variant: a response that is not ok is not parsed at all
getResponseJsonStatusGated(response) ==
  IF response.status >= 400 \/ ~response.body.json THEN NoJson
  ELSE IF Truthy(response.body.data) \/ Truthy(response.body.errors)
         THEN [present |-> TRUE, data |-> response.body.data,
               errors |-> response.body.errors]
         ELSE NoJson

\* variant: a field counts as soon as it is there, whatever its value
getResponseJsonFieldPresence(response) ==
  IF ~response.body.json THEN NoJson
  ELSE IF response.body.data # Undef \/ response.body.errors # Undef
         THEN [present |-> TRUE, data |-> response.body.data,
               errors |-> response.body.errors]
         ELSE NoJson

\* variant: every body that parses is handed on, with or without fields
getResponseJsonAnyObject(response) ==
  IF ~response.body.json THEN NoJson
  ELSE [present |-> TRUE, data |-> response.body.data,
        errors |-> response.body.errors]

getResponseJson(response) ==
  IF ~response.body.json THEN NoJson
  ELSE LET data == response.body.data
           errors == response.body.errors
       IN  IF Truthy(data) \/ Truthy(errors)
             THEN [present |-> TRUE, data |-> data, errors |-> errors]
             ELSE NoJson

(***************************************************************************)
(* Client configuration and requests                                       *)
(***************************************************************************)
\* the query calls a run can hold: the one the caller makes first, and one
\* more, made while or after the first one runs
Calls == {"c1", "c2"}
\* the calls of a run in which the caller makes a single query
Alone == {"c1"}
\* the clients a run can hold
Clients == {"k1", "k2"}

Url == "https://fake.it/"
HeaderConfigs == {<<>>, <<<<"authorization", "bearer abcd">>>>}
ClientConfigs ==
  [url : {Url}, headers : HeaderConfigs, preRequest : BOOLEAN,
   onHttpError : BOOLEAN, onError : BOOLEAN]
QueryConfigs == [query : {""}, variables : {Undef, Obj("vars")}]

FixedHeaders == << <<"x-request-type", "GraphQL">>,
                   <<"content-type", "application/json">>,
                   <<"accept", "application/json">> >>

\* JSON.stringify drops a field whose value is undefined
Stringify(q) ==
  << <<"query", q.query>> >> \o
  (IF q.variables = Undef THEN <<>> ELSE << <<"variables", Elem(q.variables)>> >>)

BaseRequest(cfg, q) ==
  [url |-> cfg.url, method |-> "POST",
   headers |-> FixedHeaders \o cfg.headers, body |-> Stringify(q)]

NoRequest == [url |-> "", method |-> "", headers |-> <<>>, body |-> <<>>]

\* the arguments of a call that is over
NoClientConfig ==
  [url |-> "", headers |-> <<>>, preRequest |-> FALSE, onHttpError |-> FALSE,
   onError |-> FALSE]
NoQueryConfig == [query |-> "", variables |-> Undef]
\* a run whose calls are given their merged configuration from the start
NoClients == [k \in Clients |-> NoClientConfig]

\* the most requests a preRequest hook takes from the factory it is given
MaxClones == 2

\* variant: the factory hands out the base request itself
cloneReturnsThis(base, existing) == [objects |-> existing, ref |-> 0]

\* baseRequest.clone(): a new Request object with the content the base request
\* has at that moment; `existing` are the clones made before, `ref` tells the
\* objects apart (0 is the base request, i the i-th clone)
clone(base, existing) ==
  [objects |-> Append(existing, base), ref |-> Len(existing) + 1]

\* the request object a reference stands for
Deref(base, objects, ref) == IF ref = 0 THEN base ELSE objects[ref]

CustomHeader == <<"custom-header", "custom value">>

\* req.headers.append('custom-header', 'custom value')
AppendHeader(req) == [req EXCEPT !.headers = Append(@, CustomHeader)]

HasCustomHeader(req) ==
  \E i \in 1..Len(req.headers) : req.headers[i] = CustomHeader

\* a request the hook builds without the factory
OwnRequest == [NoRequest EXCEPT !.url = "https://other.it/", !.method = "GET"]

\* what a preRequest hook may return: one of the requests the factory gave it,
\* as it is by then, or a request of its own making
PreRequestResults(held) == held \cup {OwnRequest}

(***************************************************************************)
(* andThen configurations                                                  *)
(***************************************************************************)
\* the two calling forms: a function, or an object { action, mapErr }
FunctionForm == [callable |-> TRUE, action |-> FALSE, mapErr |-> FALSE]
MapForm == [callable |-> FALSE, action |-> TRUE, mapErr |-> TRUE]
NoConfig == [callable |-> FALSE, action |-> FALSE, mapErr |-> FALSE]
\* two shapes the types do not allow but the run-time test has to sort: a
\* function carrying a `mapErr` property, an object without one
FunctionWithMapErr == [callable |-> TRUE, action |-> FALSE, mapErr |-> TRUE]
ObjectWithoutMapErr == [callable |-> FALSE, action |-> TRUE, mapErr |-> FALSE]
AndThenConfigs == {FunctionForm, MapForm, FunctionWithMapErr, ObjectWithoutMapErr}

\* variant: the form is chosen by whether the argument can be called
isAndThenMapConfigNotCallable(value) == ~value.callable

\* value.mapErr !== undefined
isAndThenMapConfig(value) == value.mapErr

\* containers a dependent action's promise may resolve to
ActionResults == {ok(d) : d \in DataValues} \cup {err(e) : e \in ErrorValues}

(***************************************************************************)
(* State                                                                   *)
(***************************************************************************)
VARIABLES
  config,            \* the client configuration merged into the call
  queryConfig,       \* the query and variables of the call
  pc,                \* where the call is suspended
  request,           \* the request handed to fetch
  response,          \* the response fetch resolved to
  mappedHttpErrors,  \* onHttpError's result (an array once onError is due)
  errs,              \* the body's errors, as an array, awaiting onError
  outcome,           \* what the promise returned by query settled to
  trace,             \* hook and transport invocations of the call, in order
  returned,          \* what each hook of the call returned
  box,               \* the container the caller holds
  boxPc,             \* "none", "held", "action" (andThen suspended), "rejected"
  receiver,          \* the container the last combinator was called on
  andThenConfig,     \* the argument of the andThen in progress or last made
  dependent,         \* the container the dependent action resolved to
  fnCalls,           \* callbacks invoked by the last combinator, with arguments
  nOps,              \* combinator calls made so far
  lastOp,            \* the method last called on the container
  matchValue,        \* what the last match returned
  baseRequest,       \* the base request of the call
  clones,            \* the clones of the base request made for the hook
  made,              \* what each call of the factory returned
  client,            \* the configuration each client was created with
  objects,           \* payload objects (arrays of errors, data) by reference
  containers         \* containers whose payload is held by reference

hookVars == <<baseRequest, clones, made>>
callVars == <<config, queryConfig, pc, request, response, mappedHttpErrors,
              errs, outcome, trace, returned, hookVars>>
boxVars == <<box, boxPc, receiver, andThenConfig, dependent, fnCalls, nOps,
            lastOp, matchValue>>
worldVars == <<client, objects, containers>>
vars == <<callVars, boxVars, worldVars>>

Pending == [kind |-> "pending", box |-> NoBox, message |-> "",
            status |-> 0, statusText |-> ""]
Resolved(b) == [kind |-> "resolved", box |-> b, message |-> "",
                status |-> 0, statusText |-> ""]
Rejected(msg, st, txt) == [kind |-> "rejected", box |-> NoBox, message |-> msg,
                           status |-> st, statusText |-> txt]

Invocation(name, req, resp, errors) ==
  [hook |-> name, request |-> req, response |-> resp, errors |-> errors]

NoReturns == [preRequest |-> NoRequest, onHttpError |-> Undef, onError |-> Undef]

\* a callback invocation: which callback, its argument, the value it returned
\* (a dependent action returns a promise, kept in `dependent` instead)
FnCall(name, arg, ret) == [fn |-> name, arg |-> arg, ret |-> ret]

\* nothing has been called yet
InitFrames ==
  /\ pc = [c \in Calls |-> "idle"]
  /\ request = [c \in Calls |-> NoRequest]
  /\ response = [c \in Calls |-> NoResponse]
  /\ mappedHttpErrors = [c \in Calls |-> Undef]
  /\ errs = [c \in Calls |-> Undef]
  /\ outcome = [c \in Calls |-> Pending]
  /\ trace = [c \in Calls |-> <<>>]
  /\ returned = [c \in Calls |-> NoReturns]
  /\ box = NoBox
  /\ boxPc = "none"
  /\ receiver = NoBox
  /\ andThenConfig = NoConfig
  /\ dependent = NoBox
  /\ fnCalls = <<>>
  /\ nOps = 0
  /\ lastOp = "none"
  /\ matchValue = Undef
  /\ baseRequest = [c \in Calls |-> NoRequest]
  /\ clones = [c \in Calls |-> <<>>]
  /\ made = [c \in Calls |-> <<>>]
  /\ objects = <<>>
  /\ containers = <<>>

\* the caller is about to make one query, with any configuration
Init ==
  /\ \E cfg \in ClientConfigs :
       config = [c \in Calls |-> IF c \in Alone THEN cfg ELSE NoClientConfig]
  /\ \E q \in QueryConfigs :
       queryConfig = [c \in Calls |-> IF c \in Alone THEN q ELSE NoQueryConfig]
  /\ client = NoClients
  /\ InitFrames

(***************************************************************************)
(* query                                                                   *)
(***************************************************************************)
\* query(config) up to its first await, config being the client's and the
\* call's configuration merged: builds the base request; hands it to
\* preRequest or straight to fetch
Issue(c, cfg, q) ==
  /\ config' = [config EXCEPT ![c] = cfg]
  /\ queryConfig' = [queryConfig EXCEPT ![c] = q]
  /\ LET base == BaseRequest(cfg, q)
     IN  /\ baseRequest' = [baseRequest EXCEPT ![c] = base]
         /\ IF cfg.preRequest
             THEN /\ pc' = [pc EXCEPT ![c] = "preRequest"]
                  /\ trace' = [trace EXCEPT ![c] =
                       Append(@, Invocation("preRequest", base, NoResponse, <<>>))]
                  /\ UNCHANGED request
             ELSE /\ pc' = [pc EXCEPT ![c] = "fetch"]
                  /\ request' = [request EXCEPT ![c] = base]
                  /\ trace' = [trace EXCEPT ![c] =
                       Append(@, Invocation("fetch", base, NoResponse, <<>>))]
  /\ UNCHANGED <<clones, made, response, mappedHttpErrors, errs, outcome,
                 returned>>

\* the caller's query
Query(c) ==
  /\ pc[c] = "idle"
  /\ Issue(c, config[c], queryConfig[c])
  /\ UNCHANGED <<boxVars, worldVars>>

\* the hook calls the factory it was given: () => baseRequest.clone()
CreateRequest(c) ==
  /\ pc[c] = "preRequest"
  /\ Len(made[c]) < MaxClones
  /\ LET r == clone(baseRequest[c], clones[c])
     IN  /\ clones' = [clones EXCEPT ![c] = r.objects]
         /\ made' = [made EXCEPT ![c] =
              Append(@, [ref |-> r.ref,
                         request |-> Deref(baseRequest[c], r.objects, r.ref)])]
  /\ UNCHANGED <<baseRequest, config, queryConfig, pc, request, response,
                 mappedHttpErrors, errs, outcome, trace, returned, boxVars, worldVars>>

\* the hook appends a header to one of the requests the factory gave it
HookAppendsHeader(c) ==
  /\ pc[c] = "preRequest"
  /\ \E i \in 1..Len(made[c]) :
       LET ref == made[c][i].ref
       IN  /\ ~HasCustomHeader(Deref(baseRequest[c], clones[c], ref))
           /\ IF ref = 0
                THEN /\ baseRequest' = [baseRequest EXCEPT ![c] = AppendHeader(@)]
                     /\ UNCHANGED clones
                ELSE /\ clones' = [clones EXCEPT ![c][ref] = AppendHeader(@)]
                     /\ UNCHANGED baseRequest
  /\ UNCHANGED <<made, config, queryConfig, pc, request, response,
                 mappedHttpErrors, errs, outcome, trace, returned, boxVars, worldVars>>

\* the preRequest hook's promise resolves; its request is the one sent, and
\* the clones it left behind are gone with it
PreRequestReturn(c) ==
  /\ pc[c] = "preRequest"
  /\ \E r \in PreRequestResults(
               {Deref(baseRequest[c], clones[c], made[c][i].ref) :
                  i \in 1..Len(made[c])}) :
       /\ request' = [request EXCEPT ![c] = r]
       /\ returned' = [returned EXCEPT ![c].preRequest = r]
       /\ trace' = [trace EXCEPT ![c] =
            Append(@, Invocation("fetch", r, NoResponse, <<>>))]
  /\ pc' = [pc EXCEPT ![c] = "fetch"]
  /\ clones' = [clones EXCEPT ![c] = <<>>]
  /\ UNCHANGED <<made, baseRequest, config, queryConfig, response, mappedHttpErrors,
                 errs, outcome, boxVars, worldVars>>

\* fetch resolves with a response
FetchResolve(c) ==
  /\ pc[c] = "fetch"
  /\ \E r \in Responses : response' = [response EXCEPT ![c] = r]
  /\ pc' = [pc EXCEPT ![c] = "json"]
  /\ UNCHANGED <<hookVars, config, queryConfig, request, mappedHttpErrors, errs, outcome,
                 trace, returned, boxVars, worldVars>>

\* variant: a fetch that fails is issued once more
FetchRejectRetries(c) ==
  /\ pc[c] = "fetch"
  /\ Len(trace[c]) < 4
  /\ trace' = [trace EXCEPT ![c] =
       Append(@, Invocation("fetch", request[c], NoResponse, <<>>))]
  /\ UNCHANGED <<hookVars, config, queryConfig, pc, request, response,
                 mappedHttpErrors, errs, outcome, returned, boxVars, worldVars>>

\* fetch rejects (no response at all); the rejection propagates out of query
FetchReject(c) ==
  /\ pc[c] = "fetch"
  /\ outcome' = [outcome EXCEPT ![c] = Rejected("fetch failed", 0, "")]
  /\ pc' = [pc EXCEPT ![c] = "done"]
  /\ UNCHANGED <<hookVars, config, queryConfig, request, response, mappedHttpErrors, errs,
                 trace, returned, boxVars, worldVars>>

Settle(c, o) ==
  /\ outcome' = [outcome EXCEPT ![c] = o]
  /\ pc' = [pc EXCEPT ![c] = "done"]

\* Array.isArray(x) ? x : [x]
AsArray(x) == IF IsArray(x) THEN x ELSE Arr(<<Elem(x)>>)

\* variant: errors are looked at before data
BranchErrorsFirst(responseBody) ==
  IF ~responseBody.present THEN "http"
  ELSE IF Truthy(responseBody.errors) THEN "errors"
  ELSE IF Truthy(responseBody.data) THEN "data"
  ELSE "neither"

\* the order in which query tests the parsed body
Branch(responseBody) ==
  IF ~responseBody.present THEN "http"
  ELSE IF Truthy(responseBody.data) THEN "data"
  ELSE IF Truthy(responseBody.errors) THEN "errors"
  ELSE "neither"

\* variant: the message names the status code only
HttpFailureNoText(resp) ==
  Rejected("HTTP request failed with status", resp.status, "")

\* the Error thrown when no envelope came back and no onHttpError is configured
HttpFailure(resp) ==
  Rejected("HTTP request failed with status", resp.status, resp.statusText)

\* variant: the hook is handed the base request, not the one that was sent
OnHttpErrorCallBase(c) ==
  Invocation("onHttpError", BaseRequest(config[c], queryConfig[c]),
             response[c], <<>>)

\* config.onHttpError(request, response)
OnHttpErrorCall(c) == Invocation("onHttpError", request[c], response[c], <<>>)

\* getResponseJson resolves; the response is classified up to the next hook
Classify(c) ==
  /\ pc[c] = "json"
  /\ LET responseBody == getResponseJson(response[c])
         data == responseBody.data
         errors == responseBody.errors
         branch == Branch(responseBody)
     IN  IF branch = "http"
           THEN IF config[c].onHttpError
                  THEN /\ pc' = [pc EXCEPT ![c] = "onHttpError"]
                       /\ trace' = [trace EXCEPT ![c] =
                            Append(@, OnHttpErrorCall(c))]
                       /\ UNCHANGED <<outcome, errs>>
                  ELSE /\ Settle(c, HttpFailure(response[c]))
                       /\ UNCHANGED <<trace, errs>>
           ELSE IF branch = "data"
                  THEN /\ Settle(c, Resolved(ok(data)))
                       /\ UNCHANGED <<trace, errs>>
           ELSE IF branch = "errors"
                  THEN IF ~config[c].onError
                         THEN /\ Settle(c, Resolved(err(errors)))
                              /\ UNCHANGED <<trace, errs>>
                         ELSE /\ errs' = [errs EXCEPT ![c] = AsArray(errors)]
                              /\ pc' = [pc EXCEPT ![c] = "onError"]
                              /\ trace' = [trace EXCEPT ![c] = Append(@,
                                   Invocation("onError", NoRequest, NoResponse,
                                              AsArray(errors).v))]
                              /\ UNCHANGED outcome
           ELSE /\ Settle(c, Rejected("Expected properties 'data' or 'errors'", 0, ""))
                /\ UNCHANGED <<trace, errs>>
  /\ UNCHANGED <<hookVars, config, queryConfig, request, response, mappedHttpErrors,
                 returned, boxVars, worldVars>>

\* onHttpError's promise resolves with the mapped error or errors
OnHttpErrorReturn(c) ==
  /\ pc[c] = "onHttpError"
  /\ \E ret \in ErrorValues :
       /\ returned' = [returned EXCEPT ![c].onHttpError = ret]
       /\ IF ~config[c].onError
            THEN /\ mappedHttpErrors' = [mappedHttpErrors EXCEPT ![c] = ret]
                 /\ Settle(c, Resolved(err(ret)))
                 /\ UNCHANGED trace
            ELSE /\ mappedHttpErrors' = [mappedHttpErrors EXCEPT ![c] = AsArray(ret)]
                 /\ pc' = [pc EXCEPT ![c] = "onErrorHttp"]
                 /\ trace' = [trace EXCEPT ![c] = Append(@,
                      Invocation("onError", NoRequest, NoResponse, AsArray(ret).v))]
                 /\ UNCHANGED outcome
  /\ UNCHANGED <<hookVars, config, queryConfig, request, response, errs, boxVars, worldVars>>

\* variant: the hook's result is ignored
RemappedNever(mapped, original) == original

\* variant: the hook's result is used whatever it is
RemappedAlways(mapped, original) == mapped

\* mapped ? mapped : original
Remapped(mapped, original) == IF Truthy(mapped) THEN mapped ELSE original

\* onError's promise resolves, applied to the mapped HTTP errors
OnErrorReturnHttp(c) ==
  /\ pc[c] = "onErrorHttp"
  /\ \E ret \in ErrorValues :
       /\ returned' = [returned EXCEPT ![c].onError = ret]
       /\ Settle(c, Resolved(err(Remapped(ret, mappedHttpErrors[c]))))
  /\ UNCHANGED <<hookVars, config, queryConfig, request, response, mappedHttpErrors, errs,
                 trace, boxVars, worldVars>>

\* onError's promise resolves, applied to the body's errors
OnErrorReturn(c) ==
  /\ pc[c] = "onError"
  /\ \E ret \in ErrorValues :
       /\ returned' = [returned EXCEPT ![c].onError = ret]
       /\ Settle(c, Resolved(err(Remapped(ret, errs[c]))))
  /\ UNCHANGED <<hookVars, config, queryConfig, request, response, mappedHttpErrors, errs,
                 trace, boxVars, worldVars>>

(***************************************************************************)
(* The caller: awaits the query promise, then applies combinators          *)
(***************************************************************************)
\* the frame of a finished call, its arguments included, and its promise are
\* gone
Forget(c) ==
  /\ pc' = [pc EXCEPT ![c] = "returned"]
  /\ request' = [request EXCEPT ![c] = NoRequest]
  /\ response' = [response EXCEPT ![c] = NoResponse]
  /\ mappedHttpErrors' = [mappedHttpErrors EXCEPT ![c] = Undef]
  /\ errs' = [errs EXCEPT ![c] = Undef]
  /\ trace' = [trace EXCEPT ![c] = <<>>]
  /\ returned' = [returned EXCEPT ![c] = NoReturns]
  /\ outcome' = [outcome EXCEPT ![c] = Pending]
  /\ baseRequest' = [baseRequest EXCEPT ![c] = NoRequest]
  /\ made' = [made EXCEPT ![c] = <<>>]
  /\ config' = [config EXCEPT ![c] = NoClientConfig]
  /\ queryConfig' = [queryConfig EXCEPT ![c] = NoQueryConfig]
  /\ UNCHANGED clones

\* `const response = await client.query(...)`: the caller resumes holding the
\* container
Await(c) ==
  /\ pc[c] = "done"
  /\ outcome[c].kind = "resolved"
  /\ boxPc = "none"
  /\ box' = outcome[c].box
  /\ boxPc' = "held"
  /\ Forget(c)
  /\ UNCHANGED <<receiver, andThenConfig, dependent, fnCalls, nOps, lastOp,
                 matchValue, worldVars>>

(***************************************************************************)
(* The methods of the two containers.  Each gives what the call leaves       *)
(* behind: the container returned (`box`), the callbacks it invoked         *)
(* (`calls`), the value returned by match (`value`) and where the caller    *)
(* stands afterwards (`next`).                                              *)
(***************************************************************************)
Did(b, calls, value, next) ==
  [box |-> b, calls |-> calls, value |-> value, next |-> next]

\* ok: action => action(data)
ok_ok(b) == Did(b, <<FnCall("okAction", b.data, Undef)>>, Undef, "held")
\* err: () => {}
ok_err(b) == Did(b, <<>>, Undef, "held")
\* ok: () => {}
err_ok(b) == Did(b, <<>>, Undef, "held")
\* err: action => action(errors)
err_err(b) == Did(b, <<FnCall("errAction", ErrorsOf(b), Undef)>>, Undef, "held")

\* variant: match runs the err function as well
ok_matchBothBranches(b, okRet, errRet) ==
  Did(b, <<FnCall("matchOk", b.data, okRet),
           FnCall("matchErr", ErrorsOf(b), errRet)>>, okRet, "held")

\* match: config => config.ok(data)
ok_match(b, okRet, errRet) ==
  Did(b, <<FnCall("matchOk", b.data, okRet)>>, okRet, "held")
\* match: config => config.err(errors)
err_match(b, okRet, errRet) ==
  Did(b, <<FnCall("matchErr", ErrorsOf(b), errRet)>>, errRet, "held")

\* variant: the mapping function is called and its result dropped
ok_mapOkKeepsData(b, ret) ==
  Did(ok(b.data), <<FnCall("mapFn", b.data, ret)>>, Undef, "held")

\* mapOk: mapFn => ok(mapFn(data))
ok_mapOk(b, ret) == Did(ok(ret), <<FnCall("mapFn", b.data, ret)>>, Undef, "held")
\* mapOk: () => err(errors)
err_mapOk(b, ret) == Did(err(ErrorsOf(b)), <<>>, Undef, "held")
\* mapErr: () => ok(data)
ok_mapErr(b, ret) == Did(ok(b.data), <<>>, Undef, "held")
\* variant: the mapping function is called once for each error
err_mapErrPerElement(b, ret) ==
  Did(err(ret),
      [i \in 1..Len(b.errors) |-> FnCall("mapFn", Obj(b.errors[i]), ret)],
      Undef, "held")

\* mapErr: mapFn => err(mapFn(errors))
err_mapErr(b, ret) ==
  Did(err(ret), <<FnCall("mapFn", ErrorsOf(b), ret)>>, Undef, "held")

\* variant: the ok container calls the supplied function or action twice
ok_andThenCallsTwice(b, cfg) ==
  IF isAndThenMapConfig(cfg)
    THEN IF cfg.action
           THEN Did(b, <<FnCall("action", b.data, Undef),
                         FnCall("action", b.data, Undef)>>, Undef, "action")
           ELSE Did(NoBox, <<>>, Undef, "rejected")
    ELSE IF cfg.callable
           THEN Did(b, <<FnCall("config", b.data, Undef),
                         FnCall("config", b.data, Undef)>>, Undef, "action")
           ELSE Did(NoBox, <<>>, Undef, "rejected")

\* andThen of an ok container, up to its await: config.action(data) or
\* config(data); calling what is not a function throws, which rejects the
\* promise the async function returned
ok_andThen(b, cfg) ==
  IF isAndThenMapConfig(cfg)
    THEN IF cfg.action
           THEN Did(b, <<FnCall("action", b.data, Undef)>>, Undef, "action")
           ELSE Did(NoBox, <<>>, Undef, "rejected")
    ELSE IF cfg.callable
           THEN Did(b, <<FnCall("config", b.data, Undef)>>, Undef, "action")
           ELSE Did(NoBox, <<>>, Undef, "rejected")

\* variant: the err container hands its errors to the supplied action
err_andThenCallsAction(b, cfg) ==
  Did(err(ErrorsOf(b)), <<FnCall("action", ErrorsOf(b), Undef)>>, Undef, "held")

\* andThen: () => Promise.resolve(err(errors))
err_andThen(b, cfg) == Did(err(ErrorsOf(b)), <<>>, Undef, "held")

\* variant: the dependent container's errors are passed on without mapErr
andThenSettledRawErrors(cfg, dep, ret) ==
  IF isAndThenMapConfig(cfg)
    THEN IF dep.variant = "ok"
           THEN Did(ok(dep.data), <<>>, Undef, "held")
           ELSE Did(err(ErrorsOf(dep)), <<>>, Undef, "held")
    ELSE Did(dep, <<>>, Undef, "held")

\* andThen of an ok container, after its await: the dependent container is
\* matched (ok: d => ok(d), err: errors => err(config.mapErr(errors))) in the
\* cross-error-type form and returned as it is otherwise
andThenSettled(cfg, dep, ret) ==
  IF isAndThenMapConfig(cfg)
    THEN IF dep.variant = "ok"
           THEN Did(ok(dep.data), <<>>, Undef, "held")
           ELSE Did(err(ret), <<FnCall("mapErr", ErrorsOf(dep), ret)>>, Undef,
                    "held")
    ELSE Did(dep, <<>>, Undef, "held")

CanApply == boxPc = "held" /\ nOps < MaxOps

\* the caller calls a method on the container in hand
Called(name, did) ==
  /\ box' = did.box
  /\ fnCalls' = did.calls
  /\ matchValue' = did.value
  /\ boxPc' = did.next
  /\ receiver' = box
  /\ lastOp' = name
  /\ nOps' = nOps + 1

\* box.ok(action)
ObserveOk ==
  /\ CanApply
  /\ Called("ok", IF box.variant = "ok" THEN ok_ok(box) ELSE err_ok(box))
  /\ UNCHANGED <<worldVars, callVars, andThenConfig, dependent>>

\* box.err(action)
ObserveErr ==
  /\ CanApply
  /\ Called("err", IF box.variant = "ok" THEN ok_err(box) ELSE err_err(box))
  /\ UNCHANGED <<worldVars, callVars, andThenConfig, dependent>>

\* box.match({ ok, err }), the two functions returning okRet and errRet
Match ==
  /\ CanApply
  /\ \E okRet \in DataNames, errRet \in ErrNames :
       Called("match", IF box.variant = "ok"
                         THEN ok_match(box, Obj(okRet), Obj(errRet))
                         ELSE err_match(box, Obj(okRet), Obj(errRet)))
  /\ UNCHANGED <<worldVars, callVars, andThenConfig, dependent>>

\* box.mapOk(mapFn), mapFn returning ret
MapOk ==
  /\ CanApply
  /\ \E ret \in DataValues :
       Called("mapOk", IF box.variant = "ok" THEN ok_mapOk(box, ret)
                       ELSE err_mapOk(box, ret))
  /\ UNCHANGED <<worldVars, callVars, andThenConfig, dependent>>

\* box.mapErr(mapFn), mapFn returning ret
MapErr ==
  /\ CanApply
  /\ \E ret \in ErrorValues :
       Called("mapErr", IF box.variant = "ok" THEN ok_mapErr(box, ret)
                        ELSE err_mapErr(box, ret))
  /\ UNCHANGED <<worldVars, callVars, andThenConfig, dependent>>

\* await box.andThen(cfg): an err container resolves at once to a container
\* with its errors; an ok container calls the dependent action and suspends
AndThen ==
  /\ CanApply
  /\ \E cfg \in AndThenConfigs :
       /\ andThenConfig' = cfg
       /\ Called("andThen", IF box.variant = "ok" THEN ok_andThen(box, cfg)
                            ELSE err_andThen(box, cfg))
  /\ dependent' = NoBox
  /\ UNCHANGED <<worldVars, callVars>>

\* andThen resumes with the container the dependent action resolved to
Resumed(dep) ==
  /\ boxPc = "action"
  /\ dependent' = dep
  /\ \E ret \in IF isAndThenMapConfig(andThenConfig) /\ dep.variant = "err"
                  THEN ErrorValues ELSE {Undef} :
       LET did == andThenSettled(andThenConfig, dep, ret)
       IN  /\ box' = did.box
           /\ fnCalls' = fnCalls \o did.calls
           /\ boxPc' = did.next
  /\ UNCHANGED <<receiver, andThenConfig, nOps, lastOp, matchValue>>

\* the await in andThen throws, which rejects andThen's promise
Thrown ==
  /\ boxPc = "action"
  /\ boxPc' = "rejected"
  /\ box' = NoBox
  /\ UNCHANGED <<receiver, andThenConfig, dependent, fnCalls, nOps, lastOp,
                 matchValue>>

\* the dependent action's promise resolves to a container
AndThenResolve ==
  /\ \E dep \in ActionResults : Resumed(dep)
  /\ UNCHANGED <<worldVars, callVars>>

\* the dependent action's promise rejects, and so does andThen's
AndThenReject ==
  /\ Thrown
  /\ UNCHANGED <<worldVars, callVars>>

Next ==
  \/ \E c \in Alone :
       \/ Query(c)
       \/ CreateRequest(c)
       \/ HookAppendsHeader(c)
       \/ PreRequestReturn(c)
       \/ FetchResolve(c)
       \/ FetchReject(c)
       \/ Classify(c)
       \/ OnHttpErrorReturn(c)
       \/ OnErrorReturnHttp(c)
       \/ OnErrorReturn(c)
       \/ Await(c)
  \/ ObserveOk
  \/ ObserveErr
  \/ Match
  \/ MapOk
  \/ MapErr
  \/ AndThen
  \/ AndThenResolve
  \/ AndThenReject

Spec == Init /\ [][Next]_vars

(***************************************************************************)
(* A chain: the caller awaits a query and calls andThen on its container,   *)
(* and the dependent action is itself a query of a client, as in            *)
(* `login.andThen(() => client.query(...))`.                                *)
(***************************************************************************)
\* the clients of a chain: one with both error hooks, one with none
ChainConfigs ==
  {cfg \in ClientConfigs :
     /\ cfg.headers = <<>>
     /\ ~cfg.preRequest
     /\ cfg.onHttpError = cfg.onError}

\* variant: the dependent query is issued as soon as the chain is written
ActionInvokedEarly == boxPc \in {"none", "action"}

\* ok.andThen has called the dependent action and awaits its promise
ActionInvoked == boxPc = "action"

\* the dependent action runs: client.query({...})
DependentQuery ==
  /\ ActionInvoked
  /\ pc["c2"] \in {"idle", "returned"}
  /\ \E cfg \in ChainConfigs, q \in QueryConfigs : Issue("c2", cfg, q)
  /\ UNCHANGED <<boxVars, worldVars>>

\* the dependent query resolves to a container and andThen resumes with it
DependentResolve ==
  /\ pc["c2"] = "done"
  /\ outcome["c2"].kind = "resolved"
  /\ Resumed(outcome["c2"].box)
  /\ Forget("c2")
  /\ UNCHANGED worldVars

\* the dependent query fails fatally and andThen rejects
DependentReject ==
  /\ pc["c2"] = "done"
  /\ outcome["c2"].kind = "rejected"
  /\ Thrown
  /\ Forget("c2")
  /\ UNCHANGED worldVars

InitChain ==
  /\ \E cfg \in ChainConfigs :
       config = [c \in Calls |-> IF c \in Alone THEN cfg ELSE NoClientConfig]
  /\ \E q \in QueryConfigs :
       queryConfig = [c \in Calls |-> IF c \in Alone THEN q ELSE NoQueryConfig]
  /\ client = NoClients
  /\ InitFrames

NextChain ==
  \/ \E c \in Alone :
       \/ Query(c)
       \/ Await(c)
  \/ \E c \in Calls :
       \/ FetchResolve(c)
       \/ FetchReject(c)
       \/ Classify(c)
       \/ OnHttpErrorReturn(c)
       \/ OnErrorReturnHttp(c)
       \/ OnErrorReturn(c)
  \/ AndThen
  \/ DependentQuery
  \/ DependentResolve
  \/ DependentReject

SpecChain == InitChain /\ [][NextChain]_vars

(***************************************************************************)
(* Concurrent calls: the caller issues two queries, on one client or on     *)
(* two, without awaiting the first; their steps interleave at every await.  *)
(***************************************************************************)
\* createClient(config) twice: a client with every hook and a header, and a
\* client with nothing but its URL
PairClients ==
  [k \in Clients |->
     IF k = "k1"
       THEN [url |-> Url, headers |-> << <<"authorization", "bearer abcd">> >>,
             preRequest |-> TRUE, onHttpError |-> TRUE, onError |-> TRUE]
       ELSE [url |-> Url, headers |-> <<>>,
             preRequest |-> FALSE, onHttpError |-> FALSE, onError |-> FALSE]]

\* the responses and hook results of these runs: data, two errors, a failure
\* without a body; a hook returns nothing, one error or no errors
PairResponses ==
  {r \in Responses :
     \/ r.status = 500 /\ r.body = NotJson
     \/ r.status = 200
          /\ r.body \in {[json |-> TRUE, data |-> Obj("d1"), errors |-> Undef],
                          [json |-> TRUE, data |-> Undef,
                           errors |-> Arr(<<"e1", "e2">>)]}}
PairReturns == {Undef, Obj("e1"), Arr(<<>>)}

\* variant: the call builds its headers in the client's own headers object
SpreadShared(cfg, q) ==
  [merged |-> cfg, config |-> [cfg EXCEPT !.headers = FixedHeaders \o @]]

\* { ...config, ...queryConfig }: a new object for the call; the client's
\* configuration stays as it is
Spread(cfg, q) == [merged |-> cfg, config |-> cfg]

\* client.query(queryConfig) on one of the clients
ClientQuery(c) ==
  /\ pc[c] = "idle"
  /\ \E k \in Clients, q \in QueryConfigs :
       LET spread == Spread(client[k], q)
       IN  /\ Issue(c, spread.merged, q)
           /\ client' = [client EXCEPT ![k] = spread.config]
  /\ UNCHANGED <<boxVars, objects, containers>>

\* the steps of a call in these runs
PairCreateRequest(c) == CreateRequest(c) /\ Len(made'[c]) <= 1
PairFetchResolve(c) == FetchResolve(c) /\ response'[c] \in PairResponses
PairOnHttpErrorReturn(c) ==
  OnHttpErrorReturn(c) /\ returned'[c].onHttpError \in PairReturns
PairOnErrorReturnHttp(c) ==
  OnErrorReturnHttp(c) /\ returned'[c].onError \in PairReturns
PairOnErrorReturn(c) ==
  OnErrorReturn(c) /\ returned'[c].onError \in PairReturns

InitPair ==
  /\ client = PairClients
  /\ config = [c \in Calls |-> NoClientConfig]
  /\ queryConfig = [c \in Calls |-> NoQueryConfig]
  /\ InitFrames

NextPair ==
  \E c \in Calls :
    \/ ClientQuery(c)
    \/ PairCreateRequest(c)
    \/ HookAppendsHeader(c)
    \/ PreRequestReturn(c)
    \/ PairFetchResolve(c)
    \/ FetchReject(c)
    \/ Classify(c)
    \/ PairOnHttpErrorReturn(c)
    \/ PairOnErrorReturnHttp(c)
    \/ PairOnErrorReturn(c)

SpecPair == InitPair /\ [][NextPair]_vars

(***************************************************************************)
(* Containers as JavaScript objects.  A container closes over a reference   *)
(* to its payload: the data object, or the array of errors.  `objects[r]`   *)
(* is what the object behind reference r holds now: the elements of an      *)
(* array, the properties of a data object.  A container is recorded with    *)
(* the call that made it, the reference it closed over and what the payload *)
(* held when it was constructed.                                            *)
(***************************************************************************)
\* the most containers a run constructs
MaxContainers == 2
\* the most elements or properties a callback grows a payload to
MaxFields == 2

\* a new object holding `content`
NewObject(objs, content) ==
  [objects |-> Append(objs, content), ref |-> Len(objs) + 1]

Container(variant, objs, ref) ==
  [variant |-> variant, payload |-> ref, built |-> objs[ref], from |-> ""]

\* an argument of err: an array, by reference, or a single error
ArrayArg(ref) == [array |-> TRUE, ref |-> ref, name |-> ""]
SingleArg(name) == [array |-> FALSE, ref |-> 0, name |-> name]

\* ok(data): the closures hold `data` itself
okAt(objs, ref) == [objects |-> objs, container |-> Container("ok", objs, ref)]

\* err(error): Array.isArray(error) ? error : [error] - an array is held as it
\* is, the same object; a single error is put in a new array
errAt(objs, error) ==
  IF error.array
    THEN [objects |-> objs, container |-> Container("err", objs, error.ref)]
    ELSE LET new == NewObject(objs, <<error.name>>)
         IN  [objects |-> new.objects,
              container |-> Container("err", new.objects, new.ref)]

\* the container `from` has returned joins the ones the caller holds
Constructed(from, made_) ==
  /\ objects' = made_.objects
  /\ containers' = Append(containers, [made_.container EXCEPT !.from = from])

\* what a JSON body or a callback can come up with: a new data object, a new
\* array of errors
FreshData == {<<d>> : d \in DataNames}
FreshErrors == SeqsUpTo(ErrNames, 1)

\* query returns a container built from a parsed body: ok(data) or
\* err(errors)
QueryReturns ==
  /\ Len(containers) < MaxContainers
  /\ \/ \E content \in FreshData :
          LET new == NewObject(objects, content)
          IN  Constructed("query", okAt(new.objects, new.ref))
     \/ \E content \in FreshErrors :
          LET new == NewObject(objects, content)
          IN  Constructed("query", errAt(new.objects, ArrayArg(new.ref)))
  /\ UNCHANGED <<callVars, boxVars, client>>

\* container i hands its payload to a callback (ok(action), err(action),
\* match({ok, err})), and the callback adds to what it was given, as in
\* `errors => errors.push(e)`
CallbackWrites(i) ==
  /\ i <= Len(containers)
  /\ Len(objects[containers[i].payload]) < MaxFields
  /\ \E e \in ErrNames :
       objects' = [objects EXCEPT ![containers[i].payload] = Append(@, e)]
  /\ UNCHANGED <<containers, callVars, boxVars, client>>

\* container i's mapOk(mapFn): ok(mapFn(data)), mapFn returning the object it
\* was given or a new one; err(errors) on an err container
MapOkAt(i) ==
  /\ i <= Len(containers)
  /\ Len(containers) < MaxContainers
  /\ IF containers[i].variant = "ok"
       THEN \/ Constructed("mapOk", okAt(objects, containers[i].payload))
            \/ \E content \in FreshData :
                 LET new == NewObject(objects, content)
                 IN  Constructed("mapOk", okAt(new.objects, new.ref))
       ELSE Constructed("mapOk", errAt(objects, ArrayArg(containers[i].payload)))
  /\ UNCHANGED <<callVars, boxVars, client>>

\* container i's mapErr(mapFn): err(mapFn(errors)), mapFn returning the array
\* it was given, a new array or a single error; ok(data) on an ok container
MapErrAt(i) ==
  /\ i <= Len(containers)
  /\ Len(containers) < MaxContainers
  /\ IF containers[i].variant = "err"
       THEN \/ Constructed("mapErr", errAt(objects, ArrayArg(containers[i].payload)))
            \/ \E content \in FreshErrors :
                 LET new == NewObject(objects, content)
                 IN  Constructed("mapErr", errAt(new.objects, ArrayArg(new.ref)))
            \/ \E e \in ErrNames : Constructed("mapErr", errAt(objects, SingleArg(e)))
       ELSE Constructed("mapErr", okAt(objects, containers[i].payload))
  /\ UNCHANGED <<callVars, boxVars, client>>

\* container i's andThen: Promise.resolve(err(errors)) on an err container
AndThenAt(i) ==
  /\ i <= Len(containers)
  /\ Len(containers) < MaxContainers
  /\ containers[i].variant = "err"
  /\ Constructed("andThen", errAt(objects, ArrayArg(containers[i].payload)))
  /\ UNCHANGED <<callVars, boxVars, client>>

InitObjects ==
  /\ client = NoClients
  /\ config = [c \in Calls |-> NoClientConfig]
  /\ queryConfig = [c \in Calls |-> NoQueryConfig]
  /\ InitFrames

NextObjects ==
  \/ QueryReturns
  \/ \E i \in 1..MaxContainers :
       \/ CallbackWrites(i)
       \/ MapOkAt(i)
       \/ MapErrAt(i)
       \/ AndThenAt(i)

SpecObjects == InitObjects /\ [][NextObjects]_vars

(***************************************************************************)
(* Properties of the resolution pipeline                                   *)
(***************************************************************************)
Done(c) == pc[c] = "done"
GotResponse(c) == response[c] # NoResponse
Body(c) == response[c].body
HookCount(c, name) ==
  Cardinality({i \in 1..Len(trace[c]) : trace[c][i].hook = name})
\* the error sequence a value stands for: an array as it is, anything else as
\* a one-element sequence
Normalized(x) == IF x.tag = "array" THEN x.v ELSE <<Elem(x)>>
\* the body carries a field the pipeline can use
Usable(b) == b.json /\ (Truthy(b.data) \/ Truthy(b.errors))
IsOkOf(o, d) ==
  /\ o.kind = "resolved"
  /\ o.box.isOk /\ ~o.box.isErr /\ o.box.variant = "ok"
  /\ o.box.data = d
IsErrOf(o, es) ==
  /\ o.kind = "resolved"
  /\ o.box.isErr /\ ~o.box.isOk /\ o.box.variant = "err"
  /\ o.box.errors = es

\* C1 as stated: a body with a `data` field of any value (null and 0 too)
\* resolves to Ok with that data, and no hook runs.
C1_AnyDataIsOk ==
  \A c \in Calls :
    (Done(c) /\ GotResponse(c) /\ Body(c).json /\ Body(c).data # Undef)
      => /\ IsOkOf(outcome[c], Body(c).data)
         /\ HookCount(c, "onHttpError") = 0
         /\ HookCount(c, "onError") = 0

\* C1 amended: a body whose `data` field is truthy (an object) resolves to Ok
\* carrying exactly that data, at any status and whether or not `errors` is
\* present; neither onHttpError nor onError is invoked.
C1_TruthyDataIsOk ==
  \A c \in Calls :
    (Done(c) /\ GotResponse(c) /\ Body(c).json /\ Truthy(Body(c).data))
      => /\ IsOkOf(outcome[c], Body(c).data)
         /\ HookCount(c, "onHttpError") = 0
         /\ HookCount(c, "onError") = 0

C1_Witness ==
  \E c \in Calls :
    /\ Done(c) /\ response[c].status = 500
    /\ Body(c).data = Obj("d1") /\ Body(c).errors = Arr(<<"e1">>)
    /\ config[c].onError /\ config[c].onHttpError
    /\ outcome[c].box.isOk

\* C2: errors array in the body, no data, no onError hook: the call resolves to
\* Err with the body's error sequence, element for element.
C2_ErrorsVerbatim ==
  \A c \in Calls :
    (Done(c) /\ GotResponse(c) /\ Body(c).json /\ ~Truthy(Body(c).data)
       /\ IsArray(Body(c).errors) /\ ~config[c].onError)
      => IsErrOf(outcome[c], Body(c).errors.v)

C2_Witness ==
  \E c \in Calls :
    /\ Done(c) /\ ~config[c].onError
    /\ Body(c).data = Undef /\ Body(c).errors = Arr(<<"e2", "e1">>)
    /\ outcome[c].box.errors = <<"e2", "e1">>

\* the sequence onError was applied to: the body's errors, or onHttpError's
\* result when the body had no usable envelope
PreRemapping(c) ==
  IF Usable(Body(c)) THEN Normalized(Body(c).errors)
  ELSE Normalized(returned[c].onHttpError)
OnErrorApplied(c) == Done(c) /\ HookCount(c, "onError") > 0

\* C3 as stated: the final Err carries onError's result, but the pre-remapping
\* sequence when onError yields an empty or an absent result.
C3_EmptyOrAbsentKeepsOriginal ==
  \A c \in Calls :
    OnErrorApplied(c) =>
      LET r == returned[c].onError
      IN  IsErrOf(outcome[c],
                  IF r \in Falsy \/ r = Arr(<<>>) THEN PreRemapping(c)
                  ELSE Normalized(r))

\* C3 amended: the final Err carries onError's result - an empty array
\* included, which gives an Err with no errors - and the pre-remapping
\* sequence only when onError yields a falsy result (undefined, null, 0).
C3_AbsentKeepsOriginal ==
  \A c \in Calls :
    OnErrorApplied(c) =>
      LET r == returned[c].onError
      IN  IsErrOf(outcome[c],
                  IF r \in Falsy THEN PreRemapping(c) ELSE Normalized(r))

C3_Witness ==
  \E c \in Calls :
    /\ OnErrorApplied(c) /\ Usable(Body(c))
    /\ returned[c].onError = Null
    /\ Body(c).errors = Arr(<<"e1", "e2">>)
    /\ outcome[c].box.errors = <<"e1", "e2">>

HookCalls(c, name) == SelectSeq(trace[c], LAMBDA e : e.hook = name)
HookOrder(c) ==
  LET hs == SelectSeq(trace[c], LAMBDA e : e.hook \in {"onHttpError", "onError"})
  IN  [i \in 1..Len(hs) |-> hs[i].hook]

\* C4: no usable envelope, onHttpError configured, onError not: onHttpError is
\* invoked once with the request that was sent and the response, and the call
\* resolves to Err carrying the hook's result (an array as it is, a single
\* error as a one-element sequence).
C4_HttpHookResult ==
  \A c \in Calls :
    (Done(c) /\ GotResponse(c) /\ ~Usable(Body(c))
       /\ config[c].onHttpError /\ ~config[c].onError)
      => /\ Len(HookCalls(c, "onHttpError")) = 1
         /\ HookCalls(c, "onHttpError")[1].request = request[c]
         /\ HookCalls(c, "onHttpError")[1].request = HookCalls(c, "fetch")[1].request
         /\ HookCalls(c, "onHttpError")[1].response = response[c]
         /\ HookCount(c, "onError") = 0
         /\ IsErrOf(outcome[c], Normalized(returned[c].onHttpError))

C4_Witness ==
  \E c \in Calls :
    /\ Done(c) /\ ~Body(c).json /\ response[c].status = 500
    /\ config[c].onHttpError /\ ~config[c].onError /\ config[c].preRequest
    /\ request[c] # BaseRequest(config[c], queryConfig[c])
    /\ returned[c].onHttpError = Obj("e1")
    /\ outcome[c].box.errors = <<"e1">>

\* C5: no usable envelope, both hooks configured: onHttpError runs first and
\* onError is not invoked before it returned; onError is invoked exactly once,
\* with onHttpError's result as an array; when onError returns a single error
\* or a non-empty array the final Err carries that result.
C5_HttpThenErrorHook ==
  \A c \in Calls :
    /\ pc[c] = "onHttpError" => HookCount(c, "onError") = 0
    /\ (Done(c) /\ GotResponse(c) /\ ~Usable(Body(c))
          /\ config[c].onHttpError /\ config[c].onError)
         => /\ HookOrder(c) = <<"onHttpError", "onError">>
            /\ HookCalls(c, "onError")[1].errors
                  = Normalized(returned[c].onHttpError)
            /\ LET r == returned[c].onError
               IN  (Truthy(r) /\ r # Arr(<<>>))
                     => IsErrOf(outcome[c], Normalized(r))

C5_Witness ==
  \E c \in Calls :
    /\ Done(c) /\ ~Body(c).json
    /\ config[c].onHttpError /\ config[c].onError
    /\ returned[c].onHttpError = Obj("e1")
    /\ returned[c].onError = Obj("e2")
    /\ HookCalls(c, "onError")[1].errors = <<"e1">>
    /\ outcome[c].box.errors = <<"e2">>

\* C6: no usable envelope and no onHttpError hook: the call rejects with an
\* error naming the response's status and status text, returns no container,
\* and onError is not invoked even when configured.
C6_FatalWithoutHttpHook ==
  \A c \in Calls :
    (Done(c) /\ GotResponse(c) /\ ~Usable(Body(c)) /\ ~config[c].onHttpError)
      => /\ outcome[c].kind = "rejected"
         /\ outcome[c].box = NoBox
         /\ outcome[c].status = response[c].status
         /\ outcome[c].statusText = response[c].statusText
         /\ HookCount(c, "onError") = 0
         /\ HookCount(c, "onHttpError") = 0

C6_Witness ==
  \E c \in Calls :
    /\ Done(c) /\ ~Body(c).json /\ ~config[c].onHttpError /\ config[c].onError
    /\ outcome[c].kind = "rejected"
    /\ outcome[c].status = 500 /\ outcome[c].statusText = "InternalError"

\* C7: a body with a usable envelope never gets onHttpError invoked, whatever
\* the status; with errors and no data the call resolves to Err with the body's
\* errors (no onError hook), the status playing no part.
C7_EnvelopeBypassesHttpHook ==
  \A c \in Calls :
    (GotResponse(c) /\ Usable(Body(c)))
      => /\ HookCount(c, "onHttpError") = 0
         /\ (Done(c) /\ ~Truthy(Body(c).data) /\ ~config[c].onError)
              => IsErrOf(outcome[c], Normalized(Body(c).errors))
         /\ (Done(c) /\ ~Truthy(Body(c).data)) => outcome[c].box.isErr

C7_Witness ==
  \E c \in Calls :
    /\ Done(c) /\ response[c].status = 500 /\ config[c].onHttpError
    /\ Body(c).data = Undef /\ Body(c).errors = Arr(<<"e1">>)
    /\ outcome[c].box.isErr /\ outcome[c].box.errors = <<"e1">>

NoFields(b) == b.json /\ b.data = Undef /\ b.errors = Undef

\* C9 as stated: a body that parses but has neither field makes the call
\* reject, returning no container.
C9_NoFieldsAlwaysFatal ==
  \A c \in Calls :
    (Done(c) /\ GotResponse(c) /\ NoFields(Body(c)))
      => outcome[c].kind = "rejected"

\* C9 amended: a body that parses but has neither field makes the call reject
\* with the HTTP-status error when no onHttpError hook is configured; with the
\* hook configured it is invoked and the call resolves to an Err container.
C9_NoFieldsFatalWithoutHttpHook ==
  \A c \in Calls :
    (Done(c) /\ GotResponse(c) /\ NoFields(Body(c)))
      => IF config[c].onHttpError
           THEN /\ outcome[c].kind = "resolved" /\ outcome[c].box.isErr
                /\ HookCount(c, "onHttpError") = 1
           ELSE /\ outcome[c].kind = "rejected"
                /\ outcome[c].message = "HTTP request failed with status"
                /\ outcome[c].status = response[c].status

C9_Witness ==
  \E c \in Calls :
    /\ Done(c) /\ NoFields(Body(c)) /\ config[c].onHttpError
    /\ response[c].status = 200
    /\ outcome[c].kind = "resolved" /\ outcome[c].box.isErr

(***************************************************************************)
(* Properties of the containers                                            *)
(***************************************************************************)
EmptyErr(b) == b.variant = "err" /\ b.errors = <<>>
LastFn == fnCalls[Len(fnCalls)]
\* the last combinator built its result from a callback's error value
BuiltFromCallback ==
  /\ fnCalls # <<>>
  /\ \/ LastFn.fn = "mapErr"
     \/ LastFn.fn = "mapFn" /\ LastFn.arg.tag = "array"

\* C10 as stated: every Err container carries at least one error.
C10_ErrNeverEmpty ==
  /\ \A c \in Calls : outcome[c].box.variant = "err"
        => Len(outcome[c].box.errors) >= 1
  /\ box.variant = "err" => Len(box.errors) >= 1

\* C10 amended: an Err container carries no errors only when an empty array
\* was supplied - as the body's errors, as the result of onHttpError, onError,
\* a mapErr function or andThen's mapErr, or as the errors of the container it
\* was taken from; built from a single error or a non-empty array it carries
\* at least one.
C10_ErrEmptyOnlyFromEmptyArray ==
  /\ \A c \in Calls :
        (Done(c) /\ EmptyErr(outcome[c].box))
          => Arr(<<>>) \in {Body(c).errors, returned[c].onHttpError,
                            returned[c].onError}
  /\ \A c \in Calls :
        (Done(c) /\ outcome[c].box.variant = "err" /\ GotResponse(c)
           /\ Body(c).errors # Arr(<<>>)
           /\ returned[c].onHttpError # Arr(<<>>)
           /\ returned[c].onError # Arr(<<>>))
          => Len(outcome[c].box.errors) >= 1
  /\ (boxPc = "held" /\ EmptyErr(box))
       => \/ nOps = 0 /\ \E c \in Calls : pc[c] = "returned"
          \/ nOps > 0 /\ BuiltFromCallback /\ LastFn.ret = Arr(<<>>)
          \/ nOps > 0 /\ ~BuiltFromCallback
               /\ (EmptyErr(receiver) \/ EmptyErr(dependent))
  /\ (boxPc = "held" /\ box.variant = "err" /\ nOps > 0 /\ BuiltFromCallback)
       => box.errors = Normalized(LastFn.ret)

C10_Witness ==
  /\ boxPc = "held" /\ nOps > 0
  /\ receiver.variant = "err" /\ Len(receiver.errors) = 2
  /\ fnCalls # <<>> /\ LastFn.fn = "mapFn" /\ LastFn.ret = Arr(<<>>)
  /\ EmptyErr(box)

\* ---------------------------------------------------------------------------
\* C11: andThen on an Err receiver, whatever the shape of its argument and
\* however the receiver was obtained, invokes nothing (neither the function,
\* nor action, nor mapErr), never suspends on a dependent exchange, and
\* resolves at once to an Err container carrying the receiver's very error
\* sequence.
C11_ErrAndThenShortCircuits ==
  (lastOp = "andThen" /\ receiver.variant = "err")
    => /\ boxPc = "held"
       /\ fnCalls = <<>>
       /\ dependent = NoBox
       /\ box.variant = "err" /\ box.isErr /\ ~box.isOk
       /\ box.errors = receiver.errors

C11_Witness ==
  /\ lastOp = "andThen" /\ nOps = 2 /\ boxPc = "held"
  /\ receiver.variant = "err" /\ Len(receiver.errors) = 2
  /\ andThenConfig = MapForm
  /\ box.errors = receiver.errors

\* ---------------------------------------------------------------------------
\* C12: andThen called with a plain function on Ok(d) calls that function
\* exactly once, with d, and - once the function's promise has resolved -
\* resolves to the very container it resolved to: Ok(d2) as Ok(d2), Err(es2) as
\* Err(es2), whatever d was.
C12_SameTypeAndThen ==
  (lastOp = "andThen" /\ receiver.variant = "ok"
     /\ andThenConfig = FunctionForm)
    => /\ fnCalls = <<FnCall("config", receiver.data, Undef)>>
       /\ boxPc = "action" => dependent = NoBox
       /\ boxPc = "held" => dependent \in ActionResults /\ box = dependent
       /\ boxPc = "rejected" => box = NoBox /\ dependent = NoBox

C12_Witness ==
  /\ lastOp = "andThen" /\ boxPc = "held" /\ andThenConfig = FunctionForm
  /\ receiver = ok(Obj("d1"))
  /\ dependent = ok(Obj("d2"))
  /\ box = ok(Obj("d2"))
  /\ fnCalls = <<FnCall("config", Obj("d1"), Undef)>>

\* ---------------------------------------------------------------------------
\* C13: andThen called with {action, mapErr} on Ok(d) calls action exactly
\* once, with d.  When the dependent container is Err(es2), mapErr is called
\* exactly once, with the whole sequence es2, and the result is an Err
\* container built from what mapErr returned; when it is Ok(d2), the result is
\* Ok(d2) and mapErr is never called.
C13_CrossTypeAndThen ==
  (lastOp = "andThen" /\ receiver.variant = "ok" /\ andThenConfig = MapForm)
    => /\ fnCalls # <<>>
       /\ fnCalls[1] = FnCall("action", receiver.data, Undef)
       /\ \A i \in 2..Len(fnCalls) : fnCalls[i].fn # "action"
       /\ boxPc = "action" => Len(fnCalls) = 1 /\ dependent = NoBox
       /\ (boxPc = "held" /\ dependent.variant = "err")
            => /\ Len(fnCalls) = 2
               /\ fnCalls[2].fn = "mapErr"
               /\ fnCalls[2].arg = Arr(dependent.errors)
               /\ box.variant = "err"
               /\ box.errors = Normalized(fnCalls[2].ret)
       /\ (boxPc = "held" /\ dependent.variant = "ok")
            => /\ Len(fnCalls) = 1
               /\ box.variant = "ok" /\ box.data = dependent.data
       /\ boxPc = "held" => dependent \in ActionResults

C13_Witness ==
  /\ lastOp = "andThen" /\ boxPc = "held" /\ andThenConfig = MapForm
  /\ receiver = ok(Obj("d1"))
  /\ dependent = err(Arr(<<"e1", "e2">>))
  /\ fnCalls = <<FnCall("action", Obj("d1"), Undef),
                 FnCall("mapErr", Arr(<<"e1", "e2">>), Arr(<<"e2">>))>>
  /\ box = err(Arr(<<"e2">>))

\* ---------------------------------------------------------------------------
\* C14: on an Ok receiver the argument's mapErr field alone decides the form.
\* With it, the argument's action is what gets called (and the call fails when
\* there is none), the argument itself never, even if it is a function; without
\* it, the argument itself is what gets called with the data (and the call
\* fails when it is not a function), its action and mapErr never, and the
\* dependent container comes back unmapped.
C14_FormByMapErrField ==
  (lastOp = "andThen" /\ receiver.variant = "ok")
    => /\ andThenConfig.mapErr
            => /\ \A i \in 1..Len(fnCalls) : fnCalls[i].fn # "config"
               /\ andThenConfig.action
                    => /\ fnCalls # <<>>
                       /\ fnCalls[1] = FnCall("action", receiver.data, Undef)
               /\ ~andThenConfig.action
                    => boxPc = "rejected" /\ fnCalls = <<>>
       /\ ~andThenConfig.mapErr
            => /\ \A i \in 1..Len(fnCalls) : fnCalls[i].fn = "config"
               /\ andThenConfig.callable
                    => fnCalls = <<FnCall("config", receiver.data, Undef)>>
               /\ ~andThenConfig.callable
                    => boxPc = "rejected" /\ fnCalls = <<>>
               /\ boxPc = "held" => box = dependent

C14_Witness ==
  /\ lastOp = "andThen" /\ receiver.variant = "ok"
  /\ andThenConfig = FunctionWithMapErr
  /\ boxPc = "rejected" /\ fnCalls = <<>>

\* ---------------------------------------------------------------------------
\* C15: mapOk(f) on Ok(d) calls f exactly once, with d, and returns an Ok
\* container holding what f returned; on Err(es) it never calls f and returns
\* an Err container with the same error sequence es.
C15_MapOk ==
  lastOp = "mapOk"
    => /\ boxPc = "held"
       /\ receiver.variant = "ok"
            => /\ Len(fnCalls) = 1
               /\ fnCalls[1].fn = "mapFn" /\ fnCalls[1].arg = receiver.data
               /\ box = ok(fnCalls[1].ret)
       /\ receiver.variant = "err"
            => /\ fnCalls = <<>>
               /\ box.variant = "err" /\ box.isErr
               /\ box.errors = receiver.errors

C15_Witness ==
  /\ lastOp = "mapOk" /\ boxPc = "held"
  /\ receiver = ok(Obj("d1"))
  /\ fnCalls = <<FnCall("mapFn", Obj("d1"), Obj("d2"))>>
  /\ box = ok(Obj("d2"))

\* ---------------------------------------------------------------------------
\* C16: mapErr(f) on Err(es) calls f exactly once, with the whole sequence es
\* and not with its elements one by one, and returns an Err container built
\* from what f returned; on Ok(d) it never calls f and returns an Ok container
\* with the same data d.
C16_MapErr ==
  lastOp = "mapErr"
    => /\ boxPc = "held"
       /\ receiver.variant = "err"
            => /\ Len(fnCalls) = 1
               /\ fnCalls[1].fn = "mapFn"
               /\ fnCalls[1].arg = Arr(receiver.errors)
               /\ box.variant = "err" /\ box.isErr
               /\ box.errors = Normalized(fnCalls[1].ret)
       /\ receiver.variant = "ok"
            => /\ fnCalls = <<>>
               /\ box.variant = "ok" /\ box.isOk
               /\ box.data = receiver.data

C16_Witness ==
  /\ lastOp = "mapErr" /\ boxPc = "held"
  /\ receiver = err(Arr(<<"e1", "e2">>))
  /\ fnCalls = <<FnCall("mapFn", Arr(<<"e1", "e2">>), Arr(<<"e2", "e1">>))>>
  /\ box = err(Arr(<<"e2", "e1">>))

\* ---------------------------------------------------------------------------
\* C17: match({ok, err}) calls exactly one of its two functions, exactly once:
\* ok with the data on an Ok container, err with the error sequence on an Err
\* container; what match returns is what that function returned, and the
\* container is left as it was.
C17_MatchOneBranch ==
  lastOp = "match"
    => /\ boxPc = "held" /\ box = receiver
       /\ Len(fnCalls) = 1
       /\ matchValue = fnCalls[1].ret
       /\ receiver.variant = "ok"
            => /\ fnCalls[1].fn = "matchOk" /\ fnCalls[1].arg = receiver.data
               /\ matchValue \in {Obj(d) : d \in DataNames}
       /\ receiver.variant = "err"
            => /\ fnCalls[1].fn = "matchErr"
               /\ fnCalls[1].arg = Arr(receiver.errors)
               /\ matchValue \in {Obj(e) : e \in ErrNames}

C17_Witness ==
  /\ lastOp = "match" /\ boxPc = "held"
  /\ receiver = err(Arr(<<"e1", "e2">>))
  /\ fnCalls = <<FnCall("matchErr", Arr(<<"e1", "e2">>), Obj("e1"))>>
  /\ matchValue = Obj("e1")

\* ---------------------------------------------------------------------------
\* the containers a state holds: the one in hand, the one the last method was
\* called on, the one a dependent action resolved to, the ones query resolved
\* to
Containers ==
  ({box, receiver, dependent} \cup {outcome[c].box : c \in Calls}) \ {NoBox}

\* C18: every container obtained from query, mapOk, mapErr and andThen has
\* exactly one of isOk and isErr set; its ok observer calls the callback, with
\* the data, exactly when isOk is set, and its err observer calls the callback,
\* with the error sequence, exactly when isErr is set.
C18_FlagsAndObservers ==
  /\ \A b \in Containers :
        /\ b.isOk # b.isErr
        /\ b.isOk <=> b.variant = "ok"
  /\ lastOp = "ok"
       => /\ box = receiver
          /\ receiver.isOk
               => fnCalls = <<FnCall("okAction", receiver.data, Undef)>>
          /\ ~receiver.isOk => fnCalls = <<>>
  /\ lastOp = "err"
       => /\ box = receiver
          /\ receiver.isErr
               => fnCalls = <<FnCall("errAction", Arr(receiver.errors), Undef)>>
          /\ ~receiver.isErr => fnCalls = <<>>

C18_Witness ==
  /\ lastOp = "err" /\ nOps = 2 /\ boxPc = "held"
  /\ receiver.isErr /\ ~receiver.isOk /\ Len(receiver.errors) = 2
  /\ fnCalls = <<FnCall("errAction", Arr(receiver.errors), Undef)>>

\* ---------------------------------------------------------------------------
\* what the err observer of a container hands to its callback
Observed(b) == err_err(b).calls[1].arg

\* C19: the err factory normalizes its argument.  Built from an array, the
\* container's observed error sequence is that array, element for element and
\* in order; built from a single error that is not an array, it is the
\* one-element sequence holding that error.  In particular this is what mapErr
\* makes of what its mapping function returned.
C19_ErrNormalizes ==
  /\ \A es \in ErrSeqs : Observed(err(Arr(es))) = Arr(es)
  /\ \A e \in ErrNames : Observed(err(Obj(e))) = Arr(<<e>>)
  /\ \A x \in Falsy : Observed(err(x)) = Arr(<<x.tag>>)
  /\ (lastOp = "mapErr" /\ receiver.variant = "err")
       => LET x == fnCalls[1].ret
          IN  /\ IsArray(x) => Observed(box) = x
              /\ x.tag = "object" => Observed(box) = Arr(<<x.v[1]>>)
              /\ x \in Falsy => Len(box.errors) = 1

C19_Witness ==
  /\ lastOp = "mapErr" /\ boxPc = "held"
  /\ receiver.variant = "err" /\ Len(receiver.errors) = 2
  /\ fnCalls[1].ret = Obj("e2")
  /\ box.variant = "err" /\ Observed(box) = Arr(<<"e2">>)

\* ---------------------------------------------------------------------------
Started(c) == pc[c] \notin {"idle", "returned"}
Sent(c) == pc[c] \notin {"idle", "preRequest", "returned"}

\* C20: the base request is a POST to the configured URL with the three fixed
\* headers followed by the configured ones and the body {query, variables}.
\* Without a preRequest hook it is the request handed to fetch.  With one, the
\* hook is invoked once and nothing is fetched until it has returned; every
\* call of its factory gives a request object of its own, apart from the base
\* request and from the clones before it, with the base request's content,
\* whatever the hook did to earlier clones; and the request handed to fetch,
\* once, is the one the hook returned.
C20_RequestSent ==
  \A c \in Calls :
    /\ Started(c)
         => /\ baseRequest[c].url = config[c].url
            /\ baseRequest[c].method = "POST"
            /\ Len(baseRequest[c].headers) = 3 + Len(config[c].headers)
            /\ SubSeq(baseRequest[c].headers, 1, 3)
                 = << <<"x-request-type", "GraphQL">>,
                      <<"content-type", "application/json">>,
                      <<"accept", "application/json">> >>
            /\ SubSeq(baseRequest[c].headers, 4, Len(baseRequest[c].headers))
                 = config[c].headers
            /\ baseRequest[c].body = Stringify(queryConfig[c])
            /\ \A i \in 1..Len(made[c]) :
                  /\ made[c][i].request = baseRequest[c]
                  /\ made[c][i].ref # 0
                  /\ \A j \in 1..Len(made[c]) :
                        j # i => made[c][j].ref # made[c][i].ref
    /\ pc[c] = "preRequest"
         => /\ config[c].preRequest
            /\ Len(trace[c]) = 1 /\ trace[c][1].hook = "preRequest"
            /\ request[c] = NoRequest
    /\ Sent(c)
         => /\ HookCount(c, "fetch") = 1
            /\ IF config[c].preRequest
                 THEN /\ HookCount(c, "preRequest") = 1
                      /\ trace[c][1].hook = "preRequest"
                      /\ trace[c][2].hook = "fetch"
                      /\ trace[c][2].request = returned[c].preRequest
                      /\ request[c] = returned[c].preRequest
                 ELSE /\ HookCount(c, "preRequest") = 0
                      /\ trace[c][1].hook = "fetch"
                      /\ trace[c][1].request = baseRequest[c]
                      /\ request[c] = baseRequest[c]
                      /\ made[c] = <<>>

C20_Witness ==
  \E c \in Calls :
    /\ Sent(c) /\ config[c].preRequest /\ config[c].headers # <<>>
    /\ Len(made[c]) = 2
    /\ made[c][2].request = baseRequest[c]
    /\ request[c] = AppendHeader(baseRequest[c])
    /\ trace[c][2].request = request[c]

\* ---------------------------------------------------------------------------
\* C22: a query call hands exactly one request to the transport, whether it
\* ends with an Ok container, an Err container or a fatal failure, and invokes
\* each hook at most once, and only a hook that is configured; nothing is
\* issued a second time.
C22_SingleAttempt ==
  \A c \in Calls :
    /\ Started(c)
         => /\ HookCount(c, "fetch") <= 1
            /\ \A h \in {"preRequest", "onHttpError", "onError"} :
                  HookCount(c, h) <= (IF config[c][h] THEN 1 ELSE 0)
            /\ Len(trace[c]) <= 4
    /\ Done(c) => HookCount(c, "fetch") = 1

C22_Witness ==
  \E c \in Calls :
    /\ Done(c) /\ outcome[c].kind = "rejected" /\ GotResponse(c)
    /\ config[c].preRequest /\ config[c].onError /\ ~config[c].onHttpError
    /\ HookCount(c, "preRequest") = 1
    /\ HookCount(c, "fetch") = 1
    /\ HookCount(c, "onError") = 0

\* ---------------------------------------------------------------------------
\* a call whose exchange is under way: fetch was called and the response has
\* not been read to the end
InFlight(c) == pc[c] \in {"fetch", "json"}

\* C21: in a chain of andThen calls over queries the steps run one after the
\* other: no two calls are ever under way together, let alone two exchanges,
\* and a dependent query is under way only after the query before it has
\* resolved to a container, hooks included, that container was Ok, and andThen
\* has handed its data to the dependent action.
C21_ChainSequential ==
  /\ \A c, d \in Calls :
        c # d => /\ ~(Started(c) /\ Started(d))
                 /\ ~(InFlight(c) /\ InFlight(d))
  /\ Started("c2")
       => /\ pc["c1"] = "returned"
          /\ boxPc = "action" /\ lastOp = "andThen" /\ nOps >= 1
          /\ receiver.variant = "ok"
          /\ fnCalls # <<>> /\ fnCalls[1].arg = receiver.data
          /\ dependent = NoBox

C21_Witness ==
  /\ nOps = 2 /\ boxPc = "action"
  /\ InFlight("c2") /\ config["c2"].onError
  /\ pc["c1"] = "returned"

\* ---------------------------------------------------------------------------
\* what a call running alone makes of its configuration, the response it got
\* (none when fetch failed) and what its hooks returned
QueryOutcome(cfg, resp, rets) ==
  IF resp = NoResponse THEN Rejected("fetch failed", 0, "")
  ELSE
    LET responseBody == getResponseJson(resp)
        branch == Branch(responseBody)
    IN  IF branch = "http"
          THEN IF ~cfg.onHttpError THEN HttpFailure(resp)
               ELSE IF ~cfg.onError THEN Resolved(err(rets.onHttpError))
               ELSE Resolved(err(Remapped(rets.onError,
                                          AsArray(rets.onHttpError))))
        ELSE IF branch = "data" THEN Resolved(ok(responseBody.data))
        ELSE IF branch = "errors"
          THEN IF ~cfg.onError THEN Resolved(err(responseBody.errors))
               ELSE Resolved(err(Remapped(rets.onError,
                                          AsArray(responseBody.errors))))
        ELSE Rejected("Expected properties 'data' or 'errors'", 0, "")

\* C23: two calls issued together, on one client or on two, do not touch each
\* other.  However their steps interleave, each call runs with the
\* configuration of the client it was made on, builds its base request from
\* that and its own query, sends its own request, and ends with what its own
\* response and its own hooks' results make of it; and every client's
\* configuration stays what it was created with.
C23_CallsIndependent ==
  /\ client = PairClients
  /\ \A c \in Calls :
        Started(c)
          => /\ \E k \in Clients : config[c] = PairClients[k]
             /\ baseRequest[c] = BaseRequest(config[c], queryConfig[c])
             /\ Sent(c)
                  => request[c] = IF config[c].preRequest
                                    THEN returned[c].preRequest
                                    ELSE baseRequest[c]
             /\ Done(c)
                  => outcome[c] = QueryOutcome(config[c], response[c],
                                               returned[c])

C23_Witness ==
  /\ config["c1"] = PairClients["k1"] /\ config["c2"] = PairClients["k1"]
  /\ pc["c1"] = "onErrorHttp" /\ returned["c1"].onHttpError = Obj("e1")
  /\ Done("c2") /\ outcome["c2"] = Resolved(err(Arr(<<"e1", "e2">>)))
  /\ returned["c2"].onError = Undef
  /\ queryConfig["c1"] # queryConfig["c2"]

\* ---------------------------------------------------------------------------
\* C24: a container never changes after construction - whatever methods are
\* called on it and on the containers made from it, with whatever callbacks,
\* its payload holds what it held when the container was constructed.
C24_NeverChanges ==
  \A i \in 1..Len(containers) :
     objects[containers[i].payload] = containers[i].built

====
